---- MODULE Spec2Model ----
(***************************************************************************)
(* A model of ceilometer/dispatcher/gnocchi.py: the Gnocchi dispatcher.    *)
(*                                                                         *)
(* Python strings that are matched or ordered (metric names, glob          *)
(* patterns, resource ids, project ids) are sequences of code points, so   *)
(* that fnmatch and the sort key compare them character by character.      *)
(* Strings that are only tested for equality are TLA+ strings.             *)
(***************************************************************************)
EXTENDS Integers, Sequences, FiniteSets, TLC

VARIABLES
    filter_service_activity,     \* conf.dispatcher_gnocchi.filter_service_activity
    gnocchi_project_id,          \* self._gnocchi_project_id (None until looked up)
    gnocchi_api,                 \* self._gnocchi_api (Null or a session)
    data,                        \* the batch handed to record_metering_data
    groups,                      \* the (resource_id, counter_name) groups of the batch
    gi,                          \* index in groups of the group being processed
    pc,                          \* the remote call the dispatcher is blocked on; "next" when
                                 \* a group is through; "done" when record_metering_data
                                 \* has ended; "idle" between calls
    resource_need_to_be_updated, \* the parameter/local of _process_samples
    calls,                       \* the remote calls of the group at gi, with responses
    group_result,                \* how the workflow of the group in calls ended
    result,                      \* how the last record_metering_data call ended
    store,                       \* the remote store under env "store": resources, metrics,
                                 \* measures
    env,                         \* "any": every response to every call; "store": the
                                 \* store answers from what it holds
    replay,                      \* replay environment: number of calls begun, store before/after
    policy_in,                   \* archive policy resolution: the definition metrics() is
                                 \* called on
    policy_out,                  \* archive policy resolution: the value of metrics()
    resources_file,              \* loading: data['resources'] of the resources file
    registry,                    \* loading: what _load_resources_definitions gave
    looked_up,                   \* loading: the last _get_resource_definition on the
                                 \* loaded registry and its value
    threads,                     \* threads: each thread's position in the gnocchi_api
                                 \* property or the decorator, and the value it got
    gnocchi_api_lock,            \* threads: the holder of self._gnocchi_api_lock, 0 if free
    gnocchi_project_id_lock,     \* threads: the holder of self._gnocchi_project_id_lock
    history                      \* threads: how many sessions were constructed, lookups
                                 \* made, lookups failed and resets of the cache done

load_vars == <<resources_file, registry, looked_up>>
thread_vars == <<threads, gnocchi_api_lock, gnocchi_project_id_lock, history>>

vars == <<filter_service_activity, gnocchi_project_id, gnocchi_api, data, groups,
          gi, pc, resource_need_to_be_updated, calls, group_result, result,
          store, env, replay, policy_in, policy_out, load_vars, thread_vars>>

\* Python's None.  Where a string is expected it is None, a sequence that
\* is no string (-1 is no code point); where an object is expected it is
\* Null, a record that is none of the model's objects.
None == <<-1>>
Null == [none |-> TRUE]

(***************************************************************************)
(* Bounds.                                                                 *)
(***************************************************************************)
\* The longest batch handed to record_metering_data.
MaxBatch == 3
\* How often the replay environment hands the same batch in.
Replays == 2

(***************************************************************************)
(* Strings.                                                                *)
(***************************************************************************)
cpu_util == <<99, 112, 117>>                    \* "cpu"   a metric declared literally
disk_read == <<100, 46, 114>>                   \* "d.r"   a metric matched by "d.*" only
disk_star == <<100, 46, 42>>                    \* "d.*"   a wildcard pattern
storage_objects == <<115, 46, 111>>             \* "s.o"   a swift account metric
storage_star == <<115, 46, 42>>                 \* "s.*"
unknown_metric == <<117, 110, 107>>             \* "unk"   matched by no definition
volume_size == <<118, 111, 108>>                \* "vol"   a metric whose definition has a bad path
r1 == <<114, 49>>                               \* "r1"
r2 == <<114, 50>>                               \* "r2"
gnocchi_id == <<103>>                           \* "g"     id of the filter_project tenant
project_1 == <<112>>                            \* "p"     another project
user_1 == <<117>>                               \* "u"
flavor_1 == <<109>>                             \* "m"     a flavor id
flavor_2 == <<110>>                             \* "n"     another flavor id

Range(s) == {s[i] : i \in DOMAIN s}

\* Python's < on str: lexicographic on code points.
RECURSIVE StrLess(_, _)
StrLess(a, b) ==
    IF b = <<>> THEN FALSE
    ELSE IF a = <<>> THEN TRUE
    ELSE IF Head(a) < Head(b) THEN TRUE
    ELSE IF Head(a) > Head(b) THEN FALSE
    ELSE StrLess(Tail(a), Tail(b))

\* fnmatch.fnmatch(name, pat): "*" (42) matches any run of characters, "?"
\* (63) any one character, any other character itself; the whole name must
\* match.  Character classes are not used by the patterns of this model.
RECURSIVE fnmatch(_, _)
fnmatch(name, pat) ==
    IF pat = <<>> THEN name = <<>>
    ELSE IF Head(pat) = 42
         THEN \/ fnmatch(name, Tail(pat))
              \/ name # <<>> /\ fnmatch(Tail(name), pat)
    ELSE /\ name # <<>>
         /\ Head(pat) = 63 \/ Head(pat) = Head(name)
         /\ fnmatch(Tail(name), Tail(pat))

(***************************************************************************)
(* LegacyArchivePolicyDefinition.                                          *)
(* cfg is Null or [items |-> the mapping], the mapping as a sequence of    *)
(* <<pattern, policy>> in the order dict.items() yields them.              *)
(***************************************************************************)
RECURSIVE LegacyGetFrom(_, _, _)
LegacyGetFrom(cfg, i, metric_name) ==
    IF i > Len(cfg.items) THEN None
    ELSE IF fnmatch(metric_name, cfg.items[i][1]) THEN cfg.items[i][2]
    ELSE LegacyGetFrom(cfg, i + 1, metric_name)

LegacyArchivePolicyDefinition_get(cfg, metric_name) ==
    IF cfg # Null THEN LegacyGetFrom(cfg, 1, metric_name) ELSE None

(***************************************************************************)
(* ResourcesDefinition.                                                    *)
(* A definition is a record [cfg, default_archive_policy, legacy] where    *)
(* cfg is a record with resource_type, metrics (a sequence of patterns)    *)
(* and optionally archive_policy and attributes.                           *)
(***************************************************************************)
\* Python truthiness of a policy name: None and "" are false.
Truthy(v) == v # None /\ v # <<>>

\* rd.match(metric_name)
ResourcesDefinition_match(rd, metric_name) ==
    \E i \in DOMAIN rd.cfg.metrics : fnmatch(metric_name, rd.cfg.metrics[i])

\* Faulty variant: the legacy map is asked before the definition's own archive_policy.
ArchivePolicyOf_legacy_first(rd, t) ==
    LET legacy == LegacyArchivePolicyDefinition_get(rd.legacy, t)
        archive_policy ==
            IF Truthy(legacy) THEN legacy
            ELSE IF "archive_policy" \in DOMAIN rd.cfg THEN rd.cfg.archive_policy
            ELSE None
    IN  IF Truthy(archive_policy) THEN archive_policy
        ELSE rd.default_archive_policy

\* The archive policy metrics() gives pattern t (lines 156-160).
ArchivePolicyOf(rd, t) ==
    LET archive_policy ==
            IF "archive_policy" \in DOMAIN rd.cfg
            THEN rd.cfg.archive_policy
            ELSE LegacyArchivePolicyDefinition_get(rd.legacy, t)
    IN  IF Truthy(archive_policy) THEN archive_policy
        ELSE rd.default_archive_policy

\* rd.metrics(): a dict keyed by the patterns of cfg['metrics'].
ResourcesDefinition_metrics(rd) ==
    [t \in Range(rd.cfg.metrics) |-> [archive_policy_name |-> ArchivePolicyOf(rd, t)]]

\* rd._parse_field(field, sample).  A field is [kind |-> "empty"] (None or
\* ""), [kind |-> "int", value], [kind |-> "jsonpath", path] (a parsable
\* path, as the sequence of keys it walks) or [kind |-> "invalid"] (a string
\* jsonpath_rw cannot parse).  The value is [value |-> v] or [raise |-> e].
\* Find walks the keys of a path through the nested dicts of the sample.
RECURSIVE Find(_, _)
Find(path, obj) ==
    IF path = <<>> THEN <<obj>>
    ELSE IF Head(path) \in DOMAIN obj
         THEN Find(Tail(path), obj[Head(path)])
    ELSE <<>>

ResourcesDefinition_parse_field(field, sample) ==
    IF field.kind = "empty" THEN [value |-> None]
    ELSE IF field.kind = "int" THEN [value |-> field.value]
    ELSE IF field.kind = "invalid"
         THEN [raise |-> "ResourcesDefinitionException"]
    ELSE LET values == SelectSeq(Find(field.path, sample), LAMBDA v : v # None)
         IN  IF values # <<>> THEN [value |-> values[1]] ELSE [value |-> None]

\* rd.attributes(sample): [value |-> attrs] or [raise |-> e].
RECURSIVE AttributesFrom(_, _, _, _)
AttributesFrom(rules, i, sample, attrs) ==
    IF i > Len(rules) THEN [value |-> attrs]
    ELSE LET value == ResourcesDefinition_parse_field(rules[i].field, sample)
         IN  IF "raise" \in DOMAIN value THEN value
             ELSE IF value.value # None
                  THEN AttributesFrom(rules, i + 1, sample,
                                      (rules[i].attr :> value.value) @@ attrs)
             ELSE AttributesFrom(rules, i + 1, sample, attrs)

ResourcesDefinition_attributes(rd, sample) ==
    AttributesFrom(IF "attributes" \in DOMAIN rd.cfg THEN rd.cfg.attributes ELSE <<>>,
                   1, sample, <<>>)

(***************************************************************************)
(* Configuration of the dispatcher.                                        *)
(***************************************************************************)
policy_low == <<108>>                           \* "l"  dispatcher_gnocchi.archive_policy
policy_high == <<104>>                          \* "h"
policy_medium == <<109>>                        \* "m"

\* _load_archive_policy without a policy file: LegacyArchivePolicyDefinition({}).
archive_policy_data == [items |-> <<>>]

\* _load_resources_definitions: the definitions of the resources file, in
\* file order.  One definition declares its metric literally and extracts
\* an attribute, one declares a wildcard, overrides the archive policy and
\* extracts the same attribute, one is the swift account of the self-traffic
\* filter, one has an attribute whose path jsonpath_rw cannot parse (_validate
\* looks at resource_type and metrics only, so it is loaded like the others).
resources_definition ==
    << [cfg |-> [resource_type |-> "instance",
                 metrics |-> <<cpu_util>>,
                 attributes |-> << [attr |-> "flavor_id",
                                    field |-> [kind |-> "jsonpath",
                                               path |-> <<"resource_metadata", "flavor_id">>]] >>],
        default_archive_policy |-> policy_low,
        legacy |-> archive_policy_data],
       [cfg |-> [resource_type |-> "instance_disk",
                 metrics |-> <<disk_star>>,
                 archive_policy |-> policy_high,
                 attributes |-> << [attr |-> "flavor_id",
                                    field |-> [kind |-> "jsonpath",
                                               path |-> <<"resource_metadata", "flavor_id">>]] >>],
        default_archive_policy |-> policy_low,
        legacy |-> archive_policy_data],
       [cfg |-> [resource_type |-> "swift_account",
                 metrics |-> <<storage_star>>],
        default_archive_policy |-> policy_low,
        legacy |-> archive_policy_data],
       [cfg |-> [resource_type |-> "volume",
                 metrics |-> <<volume_size>>,
                 attributes |-> << [attr |-> "display_name",
                                    field |-> [kind |-> "invalid"]] >>],
        default_archive_policy |-> policy_low,
        legacy |-> archive_policy_data] >>

(***************************************************************************)
(* Samples and batches.                                                    *)
(***************************************************************************)
Sample(rid, name, ts, vol, project, flavor) ==
    [resource_id |-> rid, counter_name |-> name, timestamp |-> ts,
     counter_volume |-> vol, project_id |-> project, user_id |-> user_1,
     resource_metadata |-> [flavor_id |-> flavor, image_ref |-> None]]

Samples ==
    { Sample(r1, cpu_util, 2, 10, project_1, flavor_1),
      Sample(r1, cpu_util, 1, 20, project_1, None),
      Sample(r1, disk_read, 1, 10, project_1, flavor_2),
      Sample(r1, volume_size, 1, 10, project_1, None),
      Sample(r1, unknown_metric, 1, 10, project_1, None),
      Sample(r2, cpu_util, 2, 20, gnocchi_id, None),
      Sample(gnocchi_id, storage_objects, 1, 10, project_1, None) }

\* The batches: up to MaxBatch samples, in any order, no sample twice.
Batches ==
    {b \in UNION {[1..n -> Samples] : n \in 0..MaxBatch} :
        \A i, j \in DOMAIN b : i # j => b[i] # b[j]}

(***************************************************************************)
(* GnocchiDispatcher: filtering, sorting and grouping.                     *)
(***************************************************************************)
_is_swift_account_sample(sample) ==
    \E i \in DOMAIN resources_definition :
        /\ resources_definition[i].cfg.resource_type = "swift_account"
        /\ ResourcesDefinition_match(resources_definition[i], sample.counter_name)

\* Faulty variant: only the swift account of the gnocchi project is recognised.
_is_gnocchi_activity_account_only(filter, project, sample) ==
    /\ filter
    /\ sample.resource_id = project
    /\ _is_swift_account_sample(sample)

\* project is the value of the gnocchi_project_id property.
_is_gnocchi_activity(filter, project, sample) ==
    /\ filter
    /\ \/ sample.project_id = project
       \/ /\ sample.resource_id = project
          /\ _is_swift_account_sample(sample)

\* Faulty variant: a later definition that matches replaces an earlier one.
RECURSIVE GetResourceDefinitionFrom_last(_, _, _)
GetResourceDefinitionFrom_last(definitions, i, metric_name) ==
    IF i > Len(definitions) THEN Null
    ELSE LET later == GetResourceDefinitionFrom_last(definitions, i + 1, metric_name)
         IN  IF later # Null THEN later
             ELSE IF ResourcesDefinition_match(definitions[i], metric_name)
                  THEN definitions[i]
             ELSE Null

\* Lines 303-305 on a list of definitions: the first definition, in order,
\* that matches; Null (the implicit None) when none does.
RECURSIVE GetResourceDefinitionFrom(_, _, _)
GetResourceDefinitionFrom(definitions, i, metric_name) ==
    IF i > Len(definitions) THEN Null
    ELSE IF ResourcesDefinition_match(definitions[i], metric_name)
         THEN definitions[i]
    ELSE GetResourceDefinitionFrom(definitions, i + 1, metric_name)

_get_resource_definition(metric_name) ==
    GetResourceDefinitionFrom(resources_definition, 1, metric_name)

\* The sort key of line 317, compared as Python compares tuples.
KeyLess(s, t) ==
    \/ StrLess(s.resource_id, t.resource_id)
    \/ /\ s.resource_id = t.resource_id
       /\ StrLess(s.counter_name, t.counter_name)

\* list.sort is stable: a sample goes behind every sample whose key is not greater.
RECURSIVE Insert(_, _)
Insert(sorted, s) ==
    IF sorted = <<>> THEN <<s>>
    ELSE IF KeyLess(s, Head(sorted)) THEN <<s>> \o sorted
    ELSE <<Head(sorted)>> \o Insert(Tail(sorted), s)

RECURSIVE SortFrom(_, _, _)
SortFrom(seq, i, sorted) ==
    IF i > Len(seq) THEN sorted ELSE SortFrom(seq, i + 1, Insert(sorted, seq[i]))

\* Faulty variant: the batch is grouped as it came.
sort_missing(seq) == seq

sort(seq) == SortFrom(seq, 1, <<>>)

\* itertools.groupby(seq, key=operator.itemgetter(key)): runs of consecutive
\* elements with equal key, as [key, items].
RECURSIVE GroupByFrom(_, _, _, _)
GroupByFrom(seq, i, key, acc) ==
    IF i > Len(seq) THEN acc
    ELSE IF acc # <<>> /\ acc[Len(acc)].key = seq[i][key]
         THEN GroupByFrom(seq, i + 1, key,
                          [acc EXCEPT ![Len(acc)].items = Append(@, seq[i])])
    ELSE GroupByFrom(seq, i + 1, key,
                     Append(acc, [key |-> seq[i][key], items |-> <<seq[i]>>]))

groupby(seq, key) == GroupByFrom(seq, 1, key, <<>>)

\* The two nested loops of record_metering_data, in iteration order.
RECURSIVE Flatten(_, _)
Flatten(by_resource, i) ==
    IF i > Len(by_resource) THEN <<>>
    ELSE LET by_metric == groupby(by_resource[i].items, "counter_name")
         IN  [j \in DOMAIN by_metric |->
                 [resource_id |-> by_resource[i].key,
                  metric_name |-> by_metric[j].key,
                  samples |-> by_metric[j].items]]
             \o Flatten(by_resource, i + 1)

\* Lines 309-329: the groups of a batch; project is consulted only when a
\* sample is tested.
GroupsOf(batch, filter, project) ==
    LET kept == SelectSeq(batch, LAMBDA s : ~_is_gnocchi_activity(filter, project, s))
    IN  Flatten(groupby(sort(kept), "resource_id"), 1)

\* Faulty variant: a group without definition ends the loops.
NextHandled_stop(gs, i) ==
    IF i > Len(gs) THEN i
    ELSE IF _get_resource_definition(gs[i].metric_name) # Null THEN i
    ELSE Len(gs) + 1

\* The next group from index i on that has a resource definition; groups
\* without one are only logged (line 336).
RECURSIVE NextHandled(_, _)
NextHandled(gs, i) ==
    IF i > Len(gs) THEN i
    ELSE IF _get_resource_definition(gs[i].metric_name) # Null THEN i
    ELSE NextHandled(gs, i + 1)

(***************************************************************************)
(* The remote store and its responses.                                     *)
(* A response is [status_code |-> n] or [raise |-> "ConnectionError"]      *)
(* (requests.ConnectionError, a transport failure).                        *)
(***************************************************************************)
Response(n) == [status_code |-> n]
ConnectionError == [raise |-> "ConnectionError"]
AnyResponse == {Response(200), Response(404), Response(409), Response(500), ConnectionError}

IsError(r) == "raise" \in DOMAIN r
Is2xx(r) == ~IsError(r) /\ r.status_code \div 100 = 2

EmptyStore == [resources |-> <<>>, metrics |-> {}, measures |-> {}]

\* What the store answers to a call, from what it holds.
StoreResponse(st, call) ==
    IF call.op = "post_measure"
    THEN IF <<call.resource_id, call.metric_name>> \in st.metrics
         THEN Response(200) ELSE Response(404)
    ELSE IF call.op = "create_resource"
    THEN IF call.resource_id \in DOMAIN st.resources
         THEN Response(409) ELSE Response(200)
    ELSE IF call.op = "create_metric"
    THEN IF call.resource_id \notin DOMAIN st.resources THEN Response(404)
         ELSE IF <<call.resource_id, call.metric_name>> \in st.metrics
              THEN Response(409) ELSE Response(200)
    ELSE IF call.resource_id \in DOMAIN st.resources
         THEN Response(200) ELSE Response(404)

Responses(st, call) == IF env = "any" THEN AnyResponse ELSE {StoreResponse(st, call)}

\* The store after it acknowledged a call with 2xx.
StoreAfter(st, call) ==
    IF call.op = "post_measure"
    THEN [st EXCEPT !.measures =
             @ \cup {<<call.resource_id, call.metric_name, m>> : m \in Range(call.data)}]
    ELSE IF call.op = "create_resource"
    THEN [st EXCEPT
             !.resources = (call.resource_id :>
                               [k \in DOMAIN call.data \ {"metrics"} |-> call.data[k]]) @@ @,
             !.metrics = @ \cup {<<call.resource_id, t>> : t \in DOMAIN call.data["metrics"]}]
    ELSE IF call.op = "create_metric"
    THEN [st EXCEPT !.metrics = @ \cup {<<call.resource_id, call.metric_name>>}]
    ELSE [st EXCEPT !.resources =
             (call.resource_id :>
                 IF call.resource_id \in DOMAIN @
                 THEN call.data @@ @[call.resource_id] ELSE call.data) @@ @]

(***************************************************************************)
(* GnocchiDispatcher: the cached connection.                               *)
(***************************************************************************)
\* requests.session() with the pool_block adapter mounted (lines 279-284).
NewSession == [adapters |-> {"http://", "https://"}, pool_block |-> TRUE]

\* The gnocchi_api property read by one thread: the cached session, or a new one.
gnocchi_api_property == IF gnocchi_api # Null THEN gnocchi_api ELSE NewSession

(***************************************************************************)
(* GnocchiDispatcher: the remote calls.  Each gives "ok" or the exception  *)
(* it raises for a response.                                               *)
(***************************************************************************)
\* Faulty variant: the 404 test is inverted.
_post_measure_inverted(r) ==
    IF IsError(r) THEN r.raise
    ELSE IF r.status_code # 404 THEN "NoSuchMetric"
    ELSE IF r.status_code \div 100 # 2 THEN "UnexpectedWorkflowError"
    ELSE "ok"

_post_measure(r) ==
    IF IsError(r) THEN r.raise
    ELSE IF r.status_code = 404 THEN "NoSuchMetric"
    ELSE IF r.status_code \div 100 # 2 THEN "UnexpectedWorkflowError"
    ELSE "ok"

_create_resource(r) ==
    IF IsError(r) THEN r.raise
    ELSE IF r.status_code = 409 THEN "ResourceAlreadyExists"
    ELSE IF r.status_code \div 100 # 2 THEN "UnexpectedWorkflowError"
    ELSE "ok"

_update_resource(r) ==
    IF IsError(r) THEN r.raise
    ELSE IF r.status_code \div 100 # 2 THEN "UnexpectedWorkflowError"
    ELSE "ok"

_create_metric(r) ==
    IF IsError(r) THEN r.raise
    ELSE IF r.status_code = 409 THEN "MetricAlreadyExists"
    ELSE IF r.status_code \div 100 # 2 THEN "UnexpectedWorkflowError"
    ELSE "ok"

(***************************************************************************)
(* GnocchiDispatcher._process_samples and its decorator.                   *)
(***************************************************************************)
\* Faulty variant: the decorator catches the connection error only.
log_and_ignore_connection_only(exc) == exc \in {"ConnectionError"}

\* Faulty variant: every error the decorator catches resets the connection.
ResetsConnection_any(exc) == exc \in {"ConnectionError", "UnexpectedWorkflowError"}

\* Faulty variant: the flag survives the creation of the resource.
NeedUpdateAfterCreate_kept(how, need_update) == need_update

\* The exceptions log_and_ignore catches (lines 92 and 96).
log_and_ignore(exc) == exc \in {"ConnectionError", "UnexpectedWorkflowError"}

\* The exception on which log_and_ignore resets self._gnocchi_api (lines 92-94).
ResetsConnection(exc) == exc = "ConnectionError"

\* Faulty variant: the flag an earlier group left is handed to the next group.
NeedUpdateAtCall_carried(left) == left

\* Lines 323 and 334: the flag record_metering_data hands to _process_samples;
\* left is what the workflow before left in its own parameter (line 345, which
\* would turn the caller's flag off after a group, is commented out).
NeedUpdateAtCall(left) == TRUE

\* Lines 376-379: resource_need_to_be_updated after _create_resource.
NeedUpdateAfterCreate(how, need_update) == IF how = "ok" THEN FALSE ELSE need_update

\* Lines 351-353.
measure_attributes(samples) ==
    [i \in DOMAIN samples |-> [timestamp |-> samples[i].timestamp,
                               value |-> samples[i].counter_volume]]

\* Faulty variant: the identity and the metrics are added for an update too.
_get_resource_attributes_full(rd, resource_id, metric_name, samples, for_update) ==
    LET attributes == ResourcesDefinition_attributes(rd, samples[Len(samples)])
    IN  IF "raise" \in DOMAIN attributes THEN attributes
        ELSE [value |-> ("metrics" :> ResourcesDefinition_metrics(rd)) @@
                        ("project_id" :> samples[Len(samples)].project_id) @@
                        ("user_id" :> samples[Len(samples)].user_id) @@
                        ("id" :> resource_id) @@ attributes.value]

\* [value |-> attributes] or [raise |-> e].
_get_resource_attributes(rd, resource_id, metric_name, samples, for_update) ==
    LET attributes == ResourcesDefinition_attributes(rd, samples[Len(samples)])
    IN  IF "raise" \in DOMAIN attributes THEN attributes
        ELSE IF ~for_update
        THEN [value |-> ("metrics" :> ResourcesDefinition_metrics(rd)) @@
                        ("project_id" :> samples[Len(samples)].project_id) @@
                        ("user_id" :> samples[Len(samples)].user_id) @@
                        ("id" :> resource_id) @@ attributes.value]
        ELSE attributes

\* The group being processed and its definition.
Group == groups[gi]
Rd == _get_resource_definition(Group.metric_name)

\* The remote call issued at pc, before its response.
Request ==
    LET base == [op |-> pc, resource_type |-> Rd.cfg.resource_type,
                 resource_id |-> Group.resource_id,
                 new_session |-> gnocchi_api = Null,
                 session |-> gnocchi_api_property]
    IN  IF pc \in {"post_measure", "post_measure_retry"}
        THEN base @@ [metric_name |-> Group.metric_name,
                      data |-> measure_attributes(Group.samples)]
        ELSE IF pc = "create_resource"
        THEN base @@ [data |-> _get_resource_attributes(
                                   Rd, Group.resource_id, Group.metric_name,
                                   Group.samples, FALSE).value]
        ELSE IF pc = "create_metric"
        THEN base @@ [metric_name |-> Group.metric_name,
                      data |-> (Group.metric_name :>
                                   ResourcesDefinition_metrics(Rd)[Group.metric_name])]
        ELSE base @@ [data |-> _get_resource_attributes(
                                   Rd, Group.resource_id, Group.metric_name,
                                   Group.samples, TRUE).value]

\* The store's view of a call: the retry is a post like the first.
Wire(call) == IF call.op = "post_measure_retry"
              THEN [call EXCEPT !.op = "post_measure"] ELSE call

\* The workflow stays in the group and blocks on the call next.
Continue(next) ==
    /\ pc' = next
    /\ group_result' = "running"
    /\ UNCHANGED <<gi, result>>

\* _process_samples has returned, or raised what the decorator catches:
\* control is back in the loops of record_metering_data.
NextGroup(how) ==
    /\ group_result' = how
    /\ pc' = "next"
    /\ UNCHANGED <<gi, result>>

\* An exception leaves _process_samples and record_metering_data.
Raise(exc) ==
    /\ group_result' = exc
    /\ result' = exc
    /\ pc' = "done"
    /\ UNCHANGED gi

\* The end of _process_samples under its decorator (lines 89-97).
Leave(how) == IF how = "ok" \/ log_and_ignore(how) THEN NextGroup(how) ELSE Raise(how)

\* Lines 387-393, after a successful post.
UpdateStep(need_update) ==
    IF need_update
    THEN LET resource_attributes ==
                 _get_resource_attributes(Rd, Group.resource_id, Group.metric_name,
                                          Group.samples, TRUE)
         IN  IF "raise" \in DOMAIN resource_attributes
             THEN Leave(resource_attributes.raise)
             ELSE IF resource_attributes.value # <<>>
             THEN Continue("update_resource")
             ELSE Leave("ok")
    ELSE Leave("ok")

\* Faulty variant: a second 404 starts the creation again.
AfterRetry_again(how, need_update) ==
    IF how = "ok" THEN UpdateStep(need_update)
    ELSE IF how = "NoSuchMetric" THEN Continue("create_resource")
    ELSE Leave(how)

\* Lines 384-393: what follows the second _post_measure; nothing around it
\* catches what it raises.
AfterRetry(how, need_update) ==
    IF how = "ok" THEN UpdateStep(need_update) ELSE Leave(how)

\* What every remote call does to the log, the store and the cached session.
Called(call, how) ==
    /\ calls' = IF call.op = "post_measure" THEN <<call>> ELSE Append(calls, call)
    /\ store' = IF how = "ok" /\ env = "store"
                THEN StoreAfter(store, Wire(call)) ELSE store
    /\ gnocchi_api' = IF ResetsConnection(how) /\ log_and_ignore(how)
                      THEN Null ELSE call.session
    /\ UNCHANGED <<filter_service_activity, gnocchi_project_id, data, groups, env,
                   replay, policy_in, policy_out, load_vars, thread_vars>>

(***************************************************************************)
(* The dispatcher as a state machine.  A step runs the dispatcher from one *)
(* response of the store to the next remote call, or to the end of         *)
(* record_metering_data.                                                   *)
(***************************************************************************)
\* A store holds the resource and the metric of every group a batch gives rise to.
Holds(st, gs) ==
    \A i \in DOMAIN gs :
        _get_resource_definition(gs[i].metric_name) # Null =>
            /\ gs[i].resource_id \in DOMAIN st.resources
            /\ <<gs[i].resource_id, gs[i].metric_name>> \in st.metrics

\* Faulty variant: a failed lookup is swallowed and the identity stays unset.
gnocchi_project_id_property_fallback(cached, found) ==
    IF cached # None THEN [value |-> cached]
    ELSE IF found THEN [value |-> gnocchi_id, lookup |-> TRUE]
    ELSE [value |-> None, lookup |-> TRUE]

\* The gnocchi_project_id property read by one thread (lines 255-269): the
\* cached identity, or the id of the tenant tenants.find gives, or the
\* exception it raises (found is whether keystone finds the tenant).
gnocchi_project_id_property(cached, found) ==
    IF cached # None THEN [value |-> cached]
    ELSE IF found THEN [value |-> gnocchi_id, lookup |-> TRUE]
    ELSE [raise |-> "Exception", lookup |-> TRUE]

\* record_metering_data(d), lines 307-329, up to the first remote call.  Under
\* env "store" the same batch is handed in again.  The property is read
\* when the filter is on and the batch has a sample (lines 294-296).
record_metering_data(d) ==
    /\ pc = "idle"
    /\ env = "store" => replay.run < Replays /\ (replay.run > 0 => d = data)
    /\ data' = d
    /\ calls' = <<>>
    /\ group_result' = "none"
    /\ LET read == filter_service_activity /\ d # <<>>
           lookup == read /\ gnocchi_project_id = None
       IN  \E found \in IF lookup THEN BOOLEAN ELSE {TRUE} :
           LET property == IF read
                           THEN gnocchi_project_id_property(gnocchi_project_id, found)
                           ELSE [value |-> gnocchi_project_id]
           IN  IF "raise" \in DOMAIN property
               THEN \* tenants.find raised (lines 263-265)
                    /\ result' = "Exception"
                    /\ groups' = <<>>
                    /\ gi' = 1
                    /\ pc' = "done"
                    /\ replay' = IF env = "store"
                                 THEN [replay EXCEPT !.run = @ + 1,
                                                     !.first = IF replay.run = 1 THEN store ELSE @]
                                 ELSE replay
                    /\ UNCHANGED gnocchi_project_id
               ELSE LET project == property.value
                        gs == GroupsOf(d, filter_service_activity, project)
                        j == NextHandled(gs, 1)
                    IN  /\ gnocchi_project_id' = project
                        /\ groups' = gs
                        /\ gi' = j
                        /\ pc' = IF j <= Len(gs) THEN "post_measure" ELSE "done"
                        /\ result' = IF j <= Len(gs) THEN "running" ELSE "returned"
                        /\ replay' = IF env = "store"
                                     THEN [run |-> replay.run + 1,
                                           held |-> IF replay.run = 0
                                                    THEN Holds(store, gs) ELSE replay.held,
                                           first |-> IF replay.run = 1
                                                     THEN store ELSE replay.first]
                                     ELSE replay
    /\ UNCHANGED <<filter_service_activity, gnocchi_api, resource_need_to_be_updated,
                   store, env, policy_in, policy_out, load_vars, thread_vars>>

\* Lines 355-363: the first _post_measure of a group.  The parameter
\* resource_need_to_be_updated is bound here; until then the variable holds
\* what the workflow before left in it.
PostMeasure ==
    /\ pc = "post_measure"
    /\ \E r \in Responses(store, Wire(Request)) :
        LET call == [Request EXCEPT !.op = "post_measure"] @@ [response |-> r]
            how == _post_measure(r)
        IN  /\ Called(call, how)
            /\ resource_need_to_be_updated' = NeedUpdateAtCall(resource_need_to_be_updated)
            /\ IF how = "NoSuchMetric"
               THEN LET resource_attributes ==
                            _get_resource_attributes(Rd, Group.resource_id,
                                                     Group.metric_name, Group.samples, FALSE)
                    IN  IF "raise" \in DOMAIN resource_attributes
                        THEN Leave(resource_attributes.raise)
                        ELSE Continue("create_resource")
               ELSE IF how = "ok"
               THEN UpdateStep(NeedUpdateAtCall(resource_need_to_be_updated))
               ELSE Leave(how)

\* Lines 364-379: _create_resource.
CreateResource ==
    /\ pc = "create_resource"
    /\ \E r \in Responses(store, Wire(Request)) :
        LET call == Request @@ [response |-> r]
            how == _create_resource(r)
        IN  /\ Called(call, how)
            /\ resource_need_to_be_updated' =
                   NeedUpdateAfterCreate(how, resource_need_to_be_updated)
            /\ IF how = "ResourceAlreadyExists"
               THEN IF Group.metric_name \in DOMAIN ResourcesDefinition_metrics(Rd)
                    THEN Continue("create_metric")
                    ELSE Leave("KeyError")
               ELSE IF how = "ok" THEN Continue("post_measure_retry")
               ELSE Leave(how)

\* Lines 368-375: _create_metric.
CreateMetric ==
    /\ pc = "create_metric"
    /\ \E r \in Responses(store, Wire(Request)) :
        LET call == Request @@ [response |-> r]
            how == _create_metric(r)
        IN  /\ Called(call, how)
            /\ UNCHANGED resource_need_to_be_updated
            /\ IF how \in {"ok", "MetricAlreadyExists"}
               THEN Continue("post_measure_retry")
               ELSE Leave(how)

\* Lines 384-393: the second _post_measure.
PostMeasureRetry ==
    /\ pc = "post_measure_retry"
    /\ \E r \in Responses(store, Wire(Request)) :
        LET call == Request @@ [response |-> r]
            how == _post_measure(r)
        IN  /\ Called(call, how)
            /\ UNCHANGED resource_need_to_be_updated
            /\ AfterRetry(how, resource_need_to_be_updated)

\* Lines 392-393: _update_resource.
UpdateResource ==
    /\ pc = "update_resource"
    /\ \E r \in Responses(store, Wire(Request)) :
        LET call == Request @@ [response |-> r]
            how == _update_resource(r)
        IN  /\ Called(call, how)
            /\ UNCHANGED resource_need_to_be_updated
            /\ Leave(how)

RecordMeteringData == \E d \in Batches : record_metering_data(d)

\* Lines 322-337: the loops go on to the next group that has a definition,
\* or record_metering_data returns.
NextSamples ==
    /\ pc = "next"
    /\ LET j == NextHandled(groups, gi + 1)
       IN  /\ gi' = j
           /\ pc' = IF j <= Len(groups) THEN "post_measure" ELSE "done"
           /\ result' = IF j <= Len(groups) THEN "running" ELSE "returned"
    /\ calls' = <<>>
    /\ group_result' = "none"
    /\ UNCHANGED <<filter_service_activity, gnocchi_project_id, gnocchi_api, data,
                   groups, resource_need_to_be_updated, store, env, replay,
                   policy_in, policy_out, load_vars, thread_vars>>

\* The caller has the outcome of record_metering_data; what outlives the call
\* is the dispatcher's caches and the store.  Under env "store" the batch is
\* kept to be handed in again.
Return ==
    /\ pc = "done"
    /\ pc' = "idle"
    /\ groups' = <<>>
    /\ gi' = 1
    /\ calls' = <<>>
    /\ group_result' = "none"
    /\ result' = "none"
    /\ resource_need_to_be_updated' = TRUE
    /\ data' = IF env = "any" THEN <<>> ELSE data
    /\ UNCHANGED <<filter_service_activity, gnocchi_project_id, gnocchi_api, store,
                   env, replay, policy_in, policy_out, load_vars, thread_vars>>

(***************************************************************************)
(* Specifications.                                                         *)
(***************************************************************************)
\* GnocchiDispatcher.__init__ (lines 194-207).
InitDispatcher ==
    /\ filter_service_activity \in BOOLEAN
    /\ gnocchi_project_id = None
    /\ gnocchi_api = Null
    /\ data = <<>>
    /\ groups = <<>>
    /\ gi = 1
    /\ pc = "idle"
    /\ resource_need_to_be_updated = TRUE
    /\ calls = <<>>
    /\ group_result = "none"
    /\ result = "none"

NoReplay == [run |-> 0, held |-> FALSE, first |-> EmptyStore]
NoPolicy == [done |-> FALSE]
\* Nothing is being loaded; no thread but the one of record_metering_data.
NoLoad == resources_file = <<>> /\ registry = [done |-> FALSE] /\ looked_up = [done |-> FALSE]
NoThreads ==
    /\ threads = <<>>
    /\ gnocchi_api_lock = 0
    /\ gnocchi_project_id_lock = 0
    /\ history = [sessions |-> 0, lookups |-> 0, failures |-> 0, resets |-> 0]

Init ==
    /\ InitDispatcher
    /\ env = "any"
    /\ store = EmptyStore
    /\ replay = NoReplay
    /\ policy_in = NoPolicy
    /\ policy_out = NoPolicy
    /\ NoLoad
    /\ NoThreads

Next ==
    \/ RecordMeteringData
    \/ PostMeasure
    \/ CreateResource
    \/ CreateMetric
    \/ PostMeasureRetry
    \/ UpdateResource
    \/ NextSamples
    \/ Return

\* A dispatcher whose store may answer every call with every response.
Spec == Init /\ [][Next]_vars

\* Stores the replay starts from: nothing; the resource without metrics;
\* the resource with one metric; every resource and metric of the samples.
Resource(rid, flavor) ==
    ("id" :> rid) @@ ("user_id" :> user_1) @@ ("project_id" :> project_1) @@
    ("flavor_id" :> flavor)

InitStores ==
    { EmptyStore,
      [resources |-> (r1 :> Resource(r1, flavor_2)), metrics |-> {}, measures |-> {}],
      [resources |-> (r1 :> Resource(r1, flavor_2)),
       metrics |-> {<<r1, cpu_util>>},
       measures |-> {<<r1, cpu_util, [timestamp |-> 1, value |-> 20]>>}],
      [resources |-> (r1 :> Resource(r1, flavor_2)) @@ (r2 :> Resource(r2, flavor_1)) @@
                     (gnocchi_id :> Resource(gnocchi_id, flavor_1)),
       metrics |-> {<<r1, cpu_util>>, <<r1, disk_read>>, <<r2, cpu_util>>,
                    <<gnocchi_id, storage_objects>>},
       measures |-> {}] }

InitStore ==
    /\ InitDispatcher
    /\ env = "store"
    /\ store \in InitStores
    /\ replay = NoReplay
    /\ policy_in = NoPolicy
    /\ policy_out = NoPolicy
    /\ NoLoad
    /\ NoThreads

\* A dispatcher whose store answers from what it holds, handed the same
\* batch Replays times.
SpecStore == InitStore /\ [][Next]_vars

(***************************************************************************)
(* Properties of record_metering_data and _process_samples.                *)
(***************************************************************************)
Ops(cs) == [i \in DOMAIN cs |-> cs[i].op]
IsPrefix(a, b) == Len(a) <= Len(b) /\ \A i \in DOMAIN a : a[i] = b[i]
Status(c, n) == ~IsError(c.response) /\ c.response.status_code = n
\* The workflow of the group in calls is over.
GroupEnded == group_result \notin {"none", "running"}
\* Some definition has a pattern that matches the metric name.
Handled(metric_name) ==
    \E i \in DOMAIN resources_definition :
        \E k \in DOMAIN resources_definition[i].cfg.metrics :
            fnmatch(metric_name, resources_definition[i].cfg.metrics[k])
\* The first postMeasures answered 404, createResource answered with status n.
MissingThenCreate(n) ==
    /\ Len(calls) >= 2
    /\ calls[1].op = "post_measure" /\ Status(calls[1], 404)
    /\ calls[2].op = "create_resource" /\ Status(calls[2], n)

\* C1: record_metering_data returns normally whatever the store answers; it
\* may raise only for a configuration error or a failed identity lookup.
C1_NeverRaisesForGroupFailures ==
    pc = "done" => result \in {"returned", "Exception", "ResourcesDefinitionException"}

\* C2: when a group ends in an UnexpectedWorkflowError the call goes on: the
\* groups before it are not processed again and the next group that has a
\* definition is started with its first postMeasures.
C2_PartialFailureIsolation ==
    /\ [](group_result = "UnexpectedWorkflowError" => pc = "next" /\ result = "running")
    /\ [][(pc = "next" /\ group_result = "UnexpectedWorkflowError")
            => /\ groups' = groups
               /\ gi' > gi
               /\ \A k \in (gi + 1)..(gi' - 1) : ~Handled(groups[k].metric_name)
               /\ IF gi' <= Len(groups)
                  THEN Handled(groups[gi'].metric_name) /\ pc' = "post_measure"
                       /\ result' = "running"
                  ELSE pc' = "done" /\ result' = "returned"]_vars

\* C2 witness: the second of three groups with a definition has ended in an
\* UnexpectedWorkflowError.
C2_Witness ==
    /\ pc = "next"
    /\ group_result = "UnexpectedWorkflowError"
    /\ \E k \in 1..(gi - 1) : Handled(groups[k].metric_name)
    /\ \E k \in (gi + 1)..Len(groups) : Handled(groups[k].metric_name)

\* C3: after 404 on the first postMeasures and 2xx on createResource the
\* calls of the group are exactly postMeasures, createResource,
\* postMeasures; neither createMetric nor updateResource is called.
C3_FreshResourcePath ==
    MissingThenCreate(200) =>
        /\ IsPrefix(Ops(calls), <<"post_measure", "create_resource", "post_measure_retry">>)
        /\ IF GroupEnded THEN Len(calls) = 3
           ELSE Len(calls) = 2 /\ pc = "post_measure_retry"

\* C3 witness: a group that created its resource and posted at the retry.
C3_Witness ==
    /\ MissingThenCreate(200)
    /\ Len(calls) = 3 /\ Status(calls[3], 200)
    /\ GroupEnded
    /\ ResourcesDefinition_attributes(Rd, Group.samples[Len(Group.samples)]).value # <<>>

\* C4: after 404 on the first postMeasures and 409 on createResource,
\* createMetric is called, then (unless createMetric failed) postMeasures
\* again, then (when that answers 2xx and the update attributes are not
\* empty) updateResource.
C4_ExistingResourcePath ==
    MissingThenCreate(409) =>
        /\ IsPrefix(Ops(calls), <<"post_measure", "create_resource", "create_metric",
                                  "post_measure_retry", "update_resource">>)
        /\ Len(calls) = 2 => pc = "create_metric"
        /\ (Len(calls) = 3 /\ (Status(calls[3], 200) \/ Status(calls[3], 409)))
              => pc = "post_measure_retry"
        /\ (Len(calls) = 4 /\ Status(calls[4], 200) /\
            ResourcesDefinition_attributes(Rd, Group.samples[Len(Group.samples)]).value # <<>>)
              => pc = "update_resource"

\* C5: a sample of the cached gnocchi project is in no group, so in no
\* payload; the samples that are neither of that project nor of that
\* resource are all in a group.
C5_SelfTrafficFiltered ==
    gnocchi_project_id # None =>
        /\ \A i \in DOMAIN groups : \A k \in DOMAIN groups[i].samples :
               groups[i].samples[k].project_id # gnocchi_project_id
        /\ \A i \in DOMAIN calls :
               /\ calls[i].resource_id = Group.resource_id
               /\ calls[i].op \in {"post_measure", "post_measure_retry"}
                     => calls[i].data = measure_attributes(Group.samples)
               /\ calls[i].op = "create_resource"
                     => calls[i].data["project_id"] # gnocchi_project_id
        /\ pc \notin {"idle"} /\ result # "Exception" =>
               \A n \in DOMAIN data :
                   (data[n].project_id # gnocchi_project_id /\
                    data[n].resource_id # gnocchi_project_id)
                     => \E i \in DOMAIN groups : data[n] \in Range(groups[i].samples)

\* C5 witness: a call is made for a batch that holds a sample of the gnocchi
\* project and another sample.
C5_Witness ==
    /\ gnocchi_project_id # None
    /\ \E n \in DOMAIN data : data[n].project_id = gnocchi_project_id
    /\ calls # <<>>

\* The samples of a pair that pass the filter, in the order of the batch.
SamplesOfPair(rid, name) ==
    SelectSeq(data, LAMBDA s :
        /\ s.resource_id = rid /\ s.counter_name = name
        /\ ~(filter_service_activity /\
             (s.project_id = gnocchi_project_id \/
              (s.resource_id = gnocchi_project_id /\ fnmatch(s.counter_name, storage_star)))))

\* C6: each (resource_id, counter_name) pair of the samples that pass the
\* filter is one group, whose first postMeasures carries one measure for
\* every sample of the pair, in the order of the batch.
C6_Grouping ==
    (pc # "idle" /\ result # "Exception") =>
        /\ \A i, j \in DOMAIN groups :
               (groups[i].resource_id = groups[j].resource_id /\
                groups[i].metric_name = groups[j].metric_name) => i = j
        /\ \A i \in DOMAIN groups :
               groups[i].samples = SamplesOfPair(groups[i].resource_id, groups[i].metric_name)
        /\ \A n \in DOMAIN data :
               SamplesOfPair(data[n].resource_id, data[n].counter_name) # <<>> =>
                   \E i \in DOMAIN groups :
                       /\ groups[i].resource_id = data[n].resource_id
                       /\ groups[i].metric_name = data[n].counter_name
        /\ calls # <<>> =>
               /\ calls[1].op = "post_measure"
               /\ calls[1].resource_id = Group.resource_id
               /\ calls[1].metric_name = Group.metric_name
               /\ LET S == SamplesOfPair(Group.resource_id, Group.metric_name)
                  IN  calls[1].data = [k \in DOMAIN S |->
                                          [timestamp |-> S[k].timestamp,
                                           value |-> S[k].counter_volume]]

\* C6 witness: the two samples of a pair, another sample between them in the
\* batch, posted as one list that is not in timestamp order.
C6_Witness ==
    /\ Len(data) = 3
    /\ data[1].resource_id = data[3].resource_id
    /\ data[1].counter_name = data[3].counter_name
    /\ data[2].counter_name # data[1].counter_name
    /\ calls # <<>>
    /\ Len(calls[1].data) = 2
    /\ calls[1].data[1].timestamp > calls[1].data[2].timestamp

\* C7: no remote call is made for a group whose metric no definition
\* matches; the groups around it are processed, and the call does not end
\* because of it.
C7_UnhandledMetric ==
    /\ [](/\ pc \notin {"idle", "done"} => Handled(Group.metric_name)
          /\ calls # <<>> => Handled(Group.metric_name)
          /\ result = "returned" => gi = Len(groups) + 1
          /\ (pc = "done" /\ result \notin {"returned", "Exception"})
                => Handled(Group.metric_name) /\ calls # <<>>)
    /\ [][(pc \in {"idle", "next"} /\ pc' # "idle" /\ result' # "Exception")
            => LET from == IF pc = "idle" THEN 1 ELSE gi + 1
               IN  /\ gi' >= from
                   /\ \A k \in from..(gi' - 1) : ~Handled(groups'[k].metric_name)
                   /\ IF gi' <= Len(groups')
                      THEN Handled(groups'[gi'].metric_name) /\ pc' = "post_measure"
                      ELSE pc' = "done" /\ result' = "returned"]_vars

\* C7 witness: a call is made for a group that comes after a group without
\* definition, which comes after a group with one.
C7_Witness ==
    /\ calls # <<>>
    /\ \E k \in 1..(gi - 1) :
           /\ ~Handled(groups[k].metric_name)
           /\ \E h \in 1..(k - 1) : Handled(groups[h].metric_name)

\* C9: the cached connection is reset exactly by the steps in which a remote
\* call fails with a ConnectionError; a call made while it is unset builds a
\* new session; every status code leaves the session in the cache.
C9_ConnectionInvalidation ==
    [][LET called == calls' # calls /\ calls' # <<>>
           c == calls'[Len(calls')]
       IN  /\ ~called => gnocchi_api' = gnocchi_api
           /\ called =>
                /\ c.new_session = (gnocchi_api = Null)
                /\ c.session = IF gnocchi_api = Null THEN NewSession ELSE gnocchi_api
                /\ gnocchi_api' = IF c.response = ConnectionError THEN Null ELSE c.session]_vars

\* C9 witness: the first call of a later group builds a new session, the
\* cache having been reset in an earlier group, and leaves it in the cache.
C9_Witness ==
    /\ calls # <<>>
    /\ gi > NextHandled(groups, 1)
    /\ calls[1].new_session
    /\ gnocchi_api = NewSession

\* C8: when the store holds the resource and the metric of every group,
\* handing the same batch in again makes only postMeasures and
\* updateResource calls, all answered 2xx, raises nothing, and leaves the
\* store as the first call left it.
C8_Idempotence ==
    (env = "store" /\ replay.held) =>
        /\ \A i \in DOMAIN calls :
               /\ calls[i].op \in {"post_measure", "update_resource"}
               /\ Is2xx(calls[i].response)
        /\ result \in {"none", "running", "returned"}
        /\ group_result \in {"none", "running", "ok"}
        /\ (pc = "done" /\ replay.run >= 2) => store = replay.first

\* C8 witness: the second call has returned; the store holds measures and
\* the attribute the update set.
C8_Witness ==
    /\ env = "store" /\ replay.held
    /\ pc = "done" /\ replay.run = 2 /\ result = "returned"
    /\ store.measures # {}
    /\ store.resources[r1]["flavor_id"] = flavor_1
    /\ store = replay.first

\* C12: an attribute path that cannot be parsed raises neither out of a
\* group's workflow nor out of record_metering_data.
C12_BadPathNeverRaisesMidBatch ==
    /\ group_result # "ResourcesDefinitionException"
    /\ result # "ResourcesDefinitionException"

\* C13: a failed identity lookup ends record_metering_data with the
\* exception before any group is formed or any call made; it leaves the
\* cached connection as it was and the identity unset, so that the next
\* batch that needs the identity looks it up again; no batch is processed
\* with the filter on and the identity unset.
C13_IdentityResolutionFailure ==
    /\ [](result = "Exception"
            => /\ pc = "done" /\ calls = <<>> /\ groups = <<>>
               /\ gnocchi_project_id = None)
    /\ []((filter_service_activity /\ data # <<>> /\ pc # "idle" /\ result # "Exception")
            => gnocchi_project_id # None)
    /\ [][(result' = "Exception" /\ result # "Exception")
            => /\ gnocchi_api' = gnocchi_api
               /\ gnocchi_project_id = None /\ gnocchi_project_id' = None
               /\ calls' = <<>>]_vars
    /\ [][(result = "Exception") => (pc' = "idle" /\ calls' = <<>>)]_vars
    /\ [][(pc = "idle" /\ pc' # "idle" /\ filter_service_activity /\ data' # <<>> /\
           gnocchi_project_id = None)
            => (result' = "Exception" \/ gnocchi_project_id' = gnocchi_id)]_vars

\* C13 witness: record_metering_data has ended with the exception of the
\* lookup, for a batch that has a sample, the identity still unset.
C13_Witness ==
    /\ result = "Exception" /\ pc = "done"
    /\ filter_service_activity /\ data # <<>>
    /\ gnocchi_project_id = None

\* The first pattern of the group's definition that matches its metric.
MatchingPattern ==
    Rd.cfg.metrics[CHOOSE i \in DOMAIN Rd.cfg.metrics :
                       /\ fnmatch(Group.metric_name, Rd.cfg.metrics[i])
                       /\ \A k \in 1..(i - 1) : ~fnmatch(Group.metric_name, Rd.cfg.metrics[k])]

\* C15: after 404 on the first postMeasures and 409 on createResource,
\* createMetric is called for the group's metric name with the archive policy
\* of the pattern that matches it, whether the name is declared literally or
\* matched by a wildcard; after 2xx or 409 from createMetric postMeasures is
\* retried.
C15_MetricCreation ==
    MissingThenCreate(409) =>
        /\ Len(calls) = 2 => pc = "create_metric"
        /\ Len(calls) >= 3 =>
              /\ calls[3].op = "create_metric"
              /\ calls[3].metric_name = Group.metric_name
              /\ calls[3].data =
                     (Group.metric_name :>
                         [archive_policy_name |-> ArchivePolicyOf(Rd, MatchingPattern)])
        /\ (Len(calls) = 3 /\ (Status(calls[3], 200) \/ Status(calls[3], 409)))
              => pc = "post_measure_retry"

\* The number of calls of an operation in the log of the group.
Count(op) == Cardinality({i \in DOMAIN calls : calls[i].op = op})

\* C16: a group's workflow makes at most two postMeasures, one
\* createResource, one createMetric and one updateResource; the second
\* postMeasures follows a 404 on the first; after the second postMeasures
\* only updateResource may follow, and when the second does not answer 2xx
\* the workflow is over.
C16_BoundedRetry ==
    /\ \A op \in {"post_measure", "post_measure_retry", "create_resource",
                  "create_metric", "update_resource"} : Count(op) <= 1
    /\ \A i \in DOMAIN calls : calls[i].op \in {"post_measure", "post_measure_retry",
                                                "create_resource", "create_metric",
                                                "update_resource"}
    /\ \A i \in DOMAIN calls :
           calls[i].op = "post_measure_retry" =>
               /\ calls[1].op = "post_measure" /\ Status(calls[1], 404)
               /\ \A j \in DOMAIN calls : j > i => calls[j].op = "update_resource"
               /\ ~Is2xx(calls[i].response) => (i = Len(calls) /\ GroupEnded)
    /\ pc = "post_measure_retry" => (calls # <<>> /\ Status(calls[1], 404))

\* C16 witness: the second postMeasures answered 404 as the first did, and
\* the workflow is over after three calls.
C16_Witness ==
    /\ Len(calls) = 3
    /\ calls[3].op = "post_measure_retry" /\ Status(calls[3], 404)
    /\ GroupEnded

\* The group processed before the group at gi is a group of the same
\* resource and created the resource: the flag it turned off is still in the
\* variable, the first step of the next workflow binds it anew.
SiblingCreated ==
    /\ pc = "post_measure"
    /\ ~resource_need_to_be_updated
    /\ \E k \in 1..(gi - 1) :
           /\ Handled(groups[k].metric_name)
           /\ \A h \in (k + 1)..(gi - 1) : ~Handled(groups[h].metric_name)
           /\ groups[k].resource_id = Group.resource_id

\* The attributes extracted from the last sample of the group.
Extracted == ResourcesDefinition_attributes(Rd, Group.samples[Len(Group.samples)])

\* C17 as stated: the metric group that follows a group of the same resource
\* which created the resource does not call updateResource.
C17_FlagAcrossSiblings ==
    [][SiblingCreated => pc' # "update_resource"]_vars

\* C17 amended: the flag one workflow turned off does not reach the next:
\* in every workflow the flag is off exactly after that workflow's own
\* createResource answered 2xx, and a group whose first postMeasures answers
\* 2xx calls updateResource when its extracted attributes are not empty,
\* also when the group before it created the same resource.
C17_FlagPerGroup ==
    /\ [](pc \in {"create_resource", "create_metric", "post_measure_retry",
                  "update_resource"}
            => resource_need_to_be_updated = ~MissingThenCreate(200))
    /\ [][(/\ pc = "post_measure"
           /\ Status(calls'[1], 200)
           /\ "value" \in DOMAIN Extracted
           /\ Extracted.value # <<>>)
            => (pc' = "update_resource" /\ resource_need_to_be_updated')]_vars

\* C17 witness: a group with attributes to extract is about to be processed
\* after a group of the same resource that created the resource.
C17_Witness ==
    /\ SiblingCreated
    /\ "value" \in DOMAIN Extracted
    /\ Extracted.value # <<>>

\* Some postMeasures of the group was answered 2xx.
Posted == \E i \in DOMAIN calls :
              calls[i].op \in {"post_measure", "post_measure_retry"} /\ Is2xx(calls[i].response)

\* C18: updateResource is called only after a postMeasures of the group was
\* answered 2xx, with exactly the extracted attributes, which are not empty;
\* a group that posted and did not itself create the resource calls it once
\* when the extracted attributes are not empty and not at all when they are.
C18_UpdateOncePerGroup ==
    /\ \A i \in DOMAIN calls :
           calls[i].op = "update_resource" =>
               /\ \E j \in 1..(i - 1) :
                      /\ calls[j].op \in {"post_measure", "post_measure_retry"}
                      /\ Is2xx(calls[j].response)
               /\ calls[i].data = Extracted.value
               /\ calls[i].data # <<>>
               /\ DOMAIN calls[i].data \cap {"id", "user_id", "project_id", "metrics"} = {}
    /\ Count("update_resource") <= 1
    /\ (Posted /\ ~MissingThenCreate(200) /\ "value" \in DOMAIN Extracted) =>
           IF Extracted.value # <<>>
           THEN \/ pc = "update_resource" /\ Count("update_resource") = 0
                \/ Count("update_resource") = 1 /\ calls[Len(calls)].op = "update_resource"
           ELSE Count("update_resource") = 0 /\ pc # "update_resource"
    /\ (Posted /\ MissingThenCreate(200)) =>
           Count("update_resource") = 0 /\ pc # "update_resource"

\* C18 witness: on a resource that existed the metric was created, the
\* measures were posted at the retry and the resource was updated.
C18_Witness ==
    /\ Ops(calls) = <<"post_measure", "create_resource", "create_metric",
                      "post_measure_retry", "update_resource">>
    /\ Status(calls[4], 200) /\ Status(calls[5], 200)
    /\ GroupEnded

(***************************************************************************)
(* Archive policy resolution: metrics() on definitions drawn from every    *)
(* combination of an archive_policy of the definition, a legacy map and a  *)
(* default.                                                                *)
(***************************************************************************)
\* The longest legacy archive policy map.
MaxLegacy == 2

any_star == <<42>>                              \* "*"

LegacyEntries == {cpu_util, disk_star, any_star} \X {policy_medium, policy_high}

\* Null (an empty policy file), or a map with up to MaxLegacy patterns.
LegacyMaps ==
    {Null} \cup
    {[items |-> m] : m \in
        {m \in UNION {[1..n -> LegacyEntries] : n \in 0..MaxLegacy} :
            \A i, j \in DOMAIN m : i # j => m[i][1] # m[j][1]}}

PolicyDefinitions ==
    {[cfg |-> c, default_archive_policy |-> d, legacy |-> l] :
        c \in [resource_type : {"instance"},
               metrics : {<<cpu_util>>, <<disk_star>>, <<cpu_util, disk_star>>}]
              \cup
              [resource_type : {"instance"},
               metrics : {<<cpu_util>>, <<disk_star>>, <<cpu_util, disk_star>>},
               archive_policy : {policy_high, policy_medium}],
        d \in {policy_low, None},
        l \in LegacyMaps}

InitPolicy ==
    /\ InitDispatcher
    /\ env = "any"
    /\ store = EmptyStore
    /\ replay = NoReplay
    /\ policy_in \in PolicyDefinitions
    /\ policy_out = NoPolicy
    /\ NoLoad
    /\ NoThreads

\* rd.metrics() on the definition drawn.
Metrics ==
    /\ ~policy_out.done
    /\ policy_out' = [done |-> TRUE, metrics |-> ResourcesDefinition_metrics(policy_in)]
    /\ UNCHANGED <<filter_service_activity, gnocchi_project_id, gnocchi_api, data,
                   groups, gi, pc, resource_need_to_be_updated, calls, group_result,
                   result, store, env, replay, policy_in, load_vars, thread_vars>>

NextPolicy == Metrics

SpecPolicy == InitPolicy /\ [][NextPolicy]_vars

\* The entries of the legacy map of the definition drawn that match t.
LegacyMatches(t) ==
    IF policy_in.legacy = Null THEN {}
    ELSE {i \in DOMAIN policy_in.legacy.items : fnmatch(t, policy_in.legacy.items[i][1])}

\* C10: metrics() gives each pattern the definition's archive_policy if it
\* has one, otherwise the policy of the legacy map entry that matches the
\* pattern if there is one, otherwise the default.
C10_ArchivePolicyPrecedence ==
    policy_out.done =>
        /\ DOMAIN policy_out.metrics = Range(policy_in.cfg.metrics)
        /\ \A t \in Range(policy_in.cfg.metrics) :
               policy_out.metrics[t].archive_policy_name =
                   IF "archive_policy" \in DOMAIN policy_in.cfg
                   THEN policy_in.cfg.archive_policy
                   ELSE IF LegacyMatches(t) # {}
                   THEN policy_in.legacy.items[
                            CHOOSE i \in LegacyMatches(t) :
                                \A k \in LegacyMatches(t) : i <= k][2]
                   ELSE policy_in.default_archive_policy

\* C10 witness: a definition with its own archive_policy, a legacy entry
\* with another policy that matches its pattern and a default: the
\* definition's policy is the result.
C10_Witness ==
    /\ policy_out.done
    /\ "archive_policy" \in DOMAIN policy_in.cfg
    /\ policy_in.default_archive_policy = policy_low
    /\ \E t \in Range(policy_in.cfg.metrics) :
           /\ LegacyMatches(t) # {}
           /\ \A i \in LegacyMatches(t) :
                  policy_in.legacy.items[i][2] # policy_in.cfg.archive_policy
           /\ policy_out.metrics[t].archive_policy_name = policy_in.cfg.archive_policy

(***************************************************************************)
(* Loading the resources file.  A value read from the file carries its     *)
(* Python type: [str |-> s], [list |-> l], [int |-> n]; a key the          *)
(* definition does not have holds Missing.                                 *)
(***************************************************************************)
\* The longest list of definitions in a resources file.
MaxDefinitions == 2

Missing == [missing |-> TRUE]
Str(v) == [str |-> v]
List(v) == [list |-> v]
Integer(v) == [int |-> v]

isinstance(v, type) == type \in DOMAIN v

\* MANDATORY_FIELDS (lines 128-129).
MANDATORY_FIELDS == [resource_type |-> "str", metrics |-> "list"]

\* _validate (lines 182-190): the exception it raises, with the definition
\* it carries, or nothing.
_validate(cfg) ==
    IF \E field \in DOMAIN MANDATORY_FIELDS :
           \/ cfg[field] = Missing
           \/ ~isinstance(cfg[field], MANDATORY_FIELDS[field])
    THEN [raise |-> "ResourcesDefinitionException", definition_cfg |-> cfg]
    ELSE [value |-> None]

\* ResourcesDefinition(definition_cfg, default_archive_policy, legacy) (lines
\* 131-136): the definition, its mandatory fields of the types _validate has
\* checked, or the exception of _validate.
ResourcesDefinition(definition_cfg, default_archive_policy, legacy) ==
    LET validated == _validate(definition_cfg)
    IN  IF "raise" \in DOMAIN validated THEN validated
        ELSE [value |-> [cfg |-> [resource_type |-> definition_cfg.resource_type.str,
                                  metrics |-> definition_cfg.metrics.list],
                         default_archive_policy |-> default_archive_policy,
                         legacy |-> legacy]]

\* The list comprehension of lines 237-239: the first exception ends it.
RECURSIVE LoadFrom(_, _, _)
LoadFrom(resources, i, loaded) ==
    IF i > Len(resources) THEN [value |-> loaded]
    ELSE LET rd == ResourcesDefinition(resources[i], policy_low, archive_policy_data)
         IN  IF "raise" \in DOMAIN rd THEN rd
             ELSE LoadFrom(resources, i + 1, Append(loaded, rd.value))

_load_resources_definitions(resources) == LoadFrom(resources, 1, <<>>)

\* The definitions a resources file may hold.
DefinitionCfgs ==
    [resource_type : {Missing, Str("instance"), Str("volume"), Integer(1)},
     metrics : {Missing, List(<<>>), List(<<cpu_util>>), List(<<disk_star>>),
                List(<<any_star>>), List(<<disk_star, cpu_util>>), Str("cpu")}]

ResourcesFiles == UNION {[1..n -> DefinitionCfgs] : n \in 0..MaxDefinitions}

MetricNames == {cpu_util, disk_read, unknown_metric}

InitLoad ==
    /\ InitDispatcher
    /\ env = "any"
    /\ store = EmptyStore
    /\ replay = NoReplay
    /\ policy_in = NoPolicy
    /\ policy_out = NoPolicy
    /\ resources_file \in ResourcesFiles
    /\ registry = [done |-> FALSE]
    /\ looked_up = [done |-> FALSE]
    /\ NoThreads

\* self.resources_definition = self._load_resources_definitions(conf) (line 202).
LoadResourcesDefinitions ==
    /\ ~registry.done
    /\ registry' = [done |-> TRUE] @@ _load_resources_definitions(resources_file)
    /\ UNCHANGED <<filter_service_activity, gnocchi_project_id, gnocchi_api, data,
                   groups, gi, pc, resource_need_to_be_updated, calls, group_result,
                   result, store, env, replay, policy_in, policy_out, resources_file,
                   looked_up, thread_vars>>

\* _get_resource_definition(metric_name) on the registry loaded.
GetResourceDefinition(metric_name) ==
    /\ registry.done
    /\ "value" \in DOMAIN registry
    /\ looked_up' = [done |-> TRUE, metric_name |-> metric_name,
                     rd |-> GetResourceDefinitionFrom(registry.value, 1, metric_name)]
    /\ UNCHANGED <<filter_service_activity, gnocchi_project_id, gnocchi_api, data,
                   groups, gi, pc, resource_need_to_be_updated, calls, group_result,
                   result, store, env, replay, policy_in, policy_out, resources_file,
                   registry, thread_vars>>

NextLoad ==
    \/ LoadResourcesDefinitions
    \/ \E metric_name \in MetricNames : GetResourceDefinition(metric_name)

SpecLoad == InitLoad /\ [][NextLoad]_vars

\* A definition the registry must not admit.
Offending(cfg) ==
    \/ cfg.resource_type = Missing
    \/ ~isinstance(cfg.resource_type, "str")
    \/ cfg.metrics = Missing
    \/ ~isinstance(cfg.metrics, "list")
    \/ cfg.metrics = List(<<>>)

\* C11: loading a file that holds a definition without resource_type or with
\* one that is no string, or without metrics, with metrics that are no list
\* or with an empty list, fails with a ResourcesDefinitionException that
\* carries the first such definition; a registry that was loaded holds every
\* definition of the file and none of them is such a definition.
C11_LoadTimeValidation ==
    registry.done =>
        LET bad == {i \in DOMAIN resources_file : Offending(resources_file[i])}
        IN  IF bad # {}
            THEN /\ "raise" \in DOMAIN registry
                 /\ registry.raise = "ResourcesDefinitionException"
                 /\ registry.definition_cfg =
                        resources_file[CHOOSE i \in bad : \A k \in bad : i <= k]
            ELSE /\ "value" \in DOMAIN registry
                 /\ Len(registry.value) = Len(resources_file)
                 /\ \A i \in DOMAIN registry.value :
                        registry.value[i].cfg.metrics # <<>>

\* The definitions of the loaded registry that match the name looked up.
Matching ==
    {i \in DOMAIN registry.value :
        \E k \in DOMAIN registry.value[i].cfg.metrics :
            fnmatch(looked_up.metric_name, registry.value[i].cfg.metrics[k])}

\* C14: _get_resource_definition gives the definition of the smallest index
\* that has a pattern matching the name, and nothing when there is none.
C14_FirstMatch ==
    looked_up.done =>
        IF Matching = {} THEN looked_up.rd = Null
        ELSE looked_up.rd = registry.value[CHOOSE i \in Matching : \A k \in Matching : i <= k]

\* C14 witness: two different definitions match the name, one by a wildcard,
\* and the first is the one found.
C14_Witness ==
    /\ looked_up.done
    /\ Matching = {1, 2}
    /\ registry.value[1] # registry.value[2]
    /\ looked_up.rd = registry.value[1]

(***************************************************************************)
(* Threads.  Several threads run record_metering_data on one dispatcher;   *)
(* each step below is one read or write of self._gnocchi_api, or one       *)
(* acquisition of self._gnocchi_api_lock, so that the steps of the threads *)
(* interleave as the interpreter may switch threads between them.  A       *)
(* session is kept by value: while it is in the cache the cache holds its  *)
(* state, and the value a thread got is the state it had when the property *)
(* returned it, which is the state the thread uses it in when it uses it   *)
(* at once.                                                                *)
(***************************************************************************)
\* The number of threads.
NumThreads == 2
\* The counters of history stop counting here.
MaxCount == 2

Threads == 1..NumThreads

\* requests.session() (line 279): no blocking adapter is mounted yet.
requests_session == [adapters |-> {}, pool_block |-> FALSE]

\* session.mount(prefix, HTTPAdapter(pool_block=True)) (lines 282-284).
mount(session, prefix) ==
    [session EXCEPT !.adapters = @ \cup {prefix}, !.pool_block = TRUE]

Inc(n) == IF n < MaxCount THEN n + 1 ELSE n

\* Faulty variant: the cache is not tested again under the lock.
recheck_skipped(cached, unset) == TRUE

\* Lines 259 and 278: the test of the cache under the lock.
recheck(cached, unset) == cached = unset

InitThreads ==
    /\ InitDispatcher
    /\ env = "any"
    /\ store = EmptyStore
    /\ replay = NoReplay
    /\ policy_in = NoPolicy
    /\ policy_out = NoPolicy
    /\ NoLoad
    /\ threads = [t \in Threads |-> [pc |-> "idle", api |-> Null, project |-> None]]
    /\ gnocchi_api_lock = 0
    /\ gnocchi_project_id_lock = 0
    /\ history = [sessions |-> 0, lookups |-> 0, failures |-> 0, resets |-> 0]

\* What no step of the property or the decorator touches.
ThreadFrame ==
    UNCHANGED <<filter_service_activity, data, groups, gi, pc,
                resource_need_to_be_updated, calls, group_result, result, store, env,
                replay, policy_in, policy_out, load_vars>>

\* What no step of the gnocchi_api property or the decorator touches.
ApiFrame == ThreadFrame /\ UNCHANGED <<gnocchi_project_id, gnocchi_project_id_lock>>

\* What no step of the gnocchi_project_id property touches.
IdFrame == ThreadFrame /\ UNCHANGED <<gnocchi_api, gnocchi_api_lock>>

At(t, where) == threads[t].pc = where
Goto(t, where) == threads' = [threads EXCEPT ![t].pc = where]

\* Line 274: the thread enters the property and tests the cache.
api_check(t) ==
    /\ At(t, "idle")
    /\ Goto(t, IF gnocchi_api # Null THEN "fast_return" ELSE "lock")
    /\ UNCHANGED <<gnocchi_api, gnocchi_api_lock, history>>
    /\ ApiFrame

\* Line 275: the cache is read again for the value returned.
api_fast_return(t) ==
    /\ At(t, "fast_return")
    /\ threads' = [threads EXCEPT ![t].pc = "use", ![t].api = gnocchi_api]
    /\ UNCHANGED <<gnocchi_api, gnocchi_api_lock, history>>
    /\ ApiFrame

\* Line 277: with self._gnocchi_api_lock.
api_lock(t) ==
    /\ At(t, "lock")
    /\ gnocchi_api_lock = 0
    /\ gnocchi_api_lock' = t
    /\ Goto(t, "recheck")
    /\ UNCHANGED <<gnocchi_api, history>>
    /\ ApiFrame

\* Line 278.
api_recheck(t) ==
    /\ At(t, "recheck")
    /\ Goto(t, IF recheck(gnocchi_api, Null) THEN "create" ELSE "return")
    /\ UNCHANGED <<gnocchi_api, gnocchi_api_lock, history>>
    /\ ApiFrame

\* Line 279: the new session is stored in the cache.  id tells the sessions
\* constructed apart.
api_create(t) ==
    /\ At(t, "create")
    /\ gnocchi_api' = requests_session @@ [id |-> Inc(history.sessions)]
    /\ history' = [history EXCEPT !.sessions = Inc(@)]
    /\ Goto(t, "mount_http")
    /\ UNCHANGED gnocchi_api_lock
    /\ ApiFrame

\* Lines 282-283.
api_mount_http(t) ==
    /\ At(t, "mount_http")
    /\ gnocchi_api' = mount(gnocchi_api, "http://")
    /\ Goto(t, "mount_https")
    /\ UNCHANGED <<gnocchi_api_lock, history>>
    /\ ApiFrame

\* Line 284.
api_mount_https(t) ==
    /\ At(t, "mount_https")
    /\ gnocchi_api' = mount(gnocchi_api, "https://")
    /\ Goto(t, "return")
    /\ UNCHANGED <<gnocchi_api_lock, history>>
    /\ ApiFrame

\* Line 286: the cache is read for the value returned and the lock released.
api_return(t) ==
    /\ At(t, "return")
    /\ threads' = [threads EXCEPT ![t].pc = "use", ![t].api = gnocchi_api]
    /\ gnocchi_api_lock' = 0
    /\ UNCHANGED <<gnocchi_api, history>>
    /\ ApiFrame

\* The thread makes its request on what the property returned (lines 409,
\* 437, 457, 476): it is answered, or a ConnectionError takes the thread to
\* the handler of the decorator; on None the attribute access fails and the
\* exception leaves the workflow.
request(t) ==
    /\ At(t, "use")
    /\ \E raised \in IF threads[t].api = Null THEN {FALSE} ELSE BOOLEAN :
           threads' = [threads EXCEPT ![t].pc = IF raised THEN "reset_lock" ELSE "idle",
                                      ![t].api = Null]
    /\ UNCHANGED <<gnocchi_api, gnocchi_api_lock, history>>
    /\ ApiFrame

\* Line 93.
reset_lock(t) ==
    /\ At(t, "reset_lock")
    /\ gnocchi_api_lock = 0
    /\ gnocchi_api_lock' = t
    /\ Goto(t, "reset")
    /\ UNCHANGED <<gnocchi_api, history>>
    /\ ApiFrame

\* Line 94, and the end of the with block.
reset(t) ==
    /\ At(t, "reset")
    /\ gnocchi_api' = Null
    /\ gnocchi_api_lock' = 0
    /\ history' = [history EXCEPT !.resets = Inc(@)]
    /\ Goto(t, "idle")
    /\ ApiFrame

\* Line 256: the thread enters the gnocchi_project_id property and tests
\* the cache.
id_check(t) ==
    /\ At(t, "idle")
    /\ Goto(t, IF gnocchi_project_id # None THEN "id_fast_return" ELSE "id_lock")
    /\ UNCHANGED <<gnocchi_project_id, gnocchi_project_id_lock, history>>
    /\ IdFrame

\* Line 257: the cache is read again for the value returned.
id_fast_return(t) ==
    /\ At(t, "id_fast_return")
    /\ threads' = [threads EXCEPT ![t].pc = "id_got", ![t].project = gnocchi_project_id]
    /\ UNCHANGED <<gnocchi_project_id, gnocchi_project_id_lock, history>>
    /\ IdFrame

\* Line 258: with self._gnocchi_project_id_lock.
id_lock(t) ==
    /\ At(t, "id_lock")
    /\ gnocchi_project_id_lock = 0
    /\ gnocchi_project_id_lock' = t
    /\ Goto(t, "id_recheck")
    /\ UNCHANGED <<gnocchi_project_id, history>>
    /\ IdFrame

\* Line 259.
id_recheck(t) ==
    /\ At(t, "id_recheck")
    /\ Goto(t, IF recheck(gnocchi_project_id, None) THEN "id_find" ELSE "id_return")
    /\ UNCHANGED <<gnocchi_project_id, gnocchi_project_id_lock, history>>
    /\ IdFrame

\* Lines 260-268: tenants.find gives the tenant, whose id is stored in the
\* cache, or raises: the exception leaves the property and the with block
\* releases the lock.
id_find(t) ==
    /\ At(t, "id_find")
    /\ \E found \in BOOLEAN :
        LET property == gnocchi_project_id_property(None, found)
        IN  IF "raise" \in DOMAIN property
            THEN /\ gnocchi_project_id_lock' = 0
                 /\ history' = [history EXCEPT !.lookups = Inc(@), !.failures = Inc(@)]
                 /\ Goto(t, "idle")
                 /\ UNCHANGED gnocchi_project_id
            ELSE /\ gnocchi_project_id' = property.value
                 /\ history' = [history EXCEPT !.lookups = Inc(@)]
                 /\ Goto(t, "id_return")
                 /\ UNCHANGED gnocchi_project_id_lock
    /\ IdFrame

\* Line 269: the cache is read for the value returned and the lock released.
id_return(t) ==
    /\ At(t, "id_return")
    /\ threads' = [threads EXCEPT ![t].pc = "id_got", ![t].project = gnocchi_project_id]
    /\ gnocchi_project_id_lock' = 0
    /\ UNCHANGED <<gnocchi_project_id, history>>
    /\ IdFrame

\* Lines 296-298: the thread compares the sample with what the property
\* returned.
id_use(t) ==
    /\ At(t, "id_got")
    /\ threads' = [threads EXCEPT ![t].pc = "idle", ![t].project = None]
    /\ UNCHANGED <<gnocchi_project_id, gnocchi_project_id_lock, history>>
    /\ IdFrame

NextThreads ==
    \E t \in Threads :
        \/ api_check(t)
        \/ api_fast_return(t)
        \/ api_lock(t)
        \/ api_recheck(t)
        \/ api_create(t)
        \/ api_mount_http(t)
        \/ api_mount_https(t)
        \/ api_return(t)
        \/ request(t)
        \/ reset_lock(t)
        \/ reset(t)
        \/ id_check(t)
        \/ id_fast_return(t)
        \/ id_lock(t)
        \/ id_recheck(t)
        \/ id_find(t)
        \/ id_return(t)
        \/ id_use(t)

SpecThreads == InitThreads /\ [][NextThreads]_vars

\* C19: what the gnocchi_api property returns to a thread is a session,
\* never None, whatever the other threads do meanwhile.
C19_NeverAbsentConnection ==
    \A t \in Threads : threads[t].pc = "use" => threads[t].api # Null

\* C20: a session the gnocchi_api property returns to a thread has the
\* blocking adapter mounted for http and for https.
C20_ConfiguredBeforePublished ==
    \A t \in Threads :
        (threads[t].pc = "use" /\ threads[t].api # Null) =>
            /\ threads[t].api.adapters = {"http://", "https://"}
            /\ threads[t].api.pool_block

\* C21: as long as the cache of the connection was never reset, one session
\* at most has been constructed, and every thread the gnocchi_api property
\* returned to holds that session; as long as no lookup failed, one lookup at
\* most has been made, and every thread the gnocchi_project_id property
\* returned to holds the identity it gave; the cached identity, once set, is
\* never changed or reset.
C21_InitializeOnce ==
    /\ [](history.resets = 0 =>
            /\ history.sessions <= 1
            /\ \A t \in Threads :
                   threads[t].pc = "use" =>
                       /\ history.sessions = 1
                       /\ threads[t].api # Null
                       /\ gnocchi_api # Null
                       /\ threads[t].api.id = gnocchi_api.id
                       /\ threads[t].api.id = 1)
    /\ [](history.failures = 0 =>
            /\ history.lookups <= 1
            /\ \A t \in Threads :
                   threads[t].pc = "id_got" =>
                       /\ history.lookups = 1
                       /\ threads[t].project = gnocchi_id
                       /\ threads[t].project = gnocchi_project_id)
    /\ [](history.lookups - history.failures <= 1)
    /\ [][gnocchi_project_id # None => gnocchi_project_id' = gnocchi_project_id]_vars

\* C21 witness: one session was constructed and never reset; a thread is in
\* the locked path of the property, about to read it, and the property has
\* returned that session to every other thread; the identity was looked up
\* once.
C21_Witness ==
    /\ history = [sessions |-> 1, lookups |-> 1, failures |-> 0, resets |-> 0]
    /\ gnocchi_project_id = gnocchi_id
    /\ \E last \in Threads :
           /\ threads[last].pc = "return"
           /\ \A t \in Threads \ {last} :
                  /\ threads[t].pc = "use"
                  /\ threads[t].api = gnocchi_api
====
